---- MODULE Spec2Model ----
(***************************************************************************)
(* Model of the pump control server (src/server.js): a PostgreSQL table     *)
(* pump_status, the in-memory map `clients` from area name to WebSocket,     *)
(* and the asynchronous handlers that read and write them.                   *)
(*                                                                           *)
(* One step of the model is one event-loop turn together with the database   *)
(* statement whose completion started it: a handler that awaits             *)
(* pool.query(...) is parked at a program counter naming the pending          *)
(* statement, and the step that resumes it executes the statement on the     *)
(* table and runs the continuation up to the next await.  A SELECT whose     *)
(* continuation touches `clients` or a socket is split in two steps (the     *)
(* statement executes in the database, the continuation runs later), since   *)
(* other statements may commit in between.                                   *)
(*                                                                           *)
(* Every connection carries an ?area= parameter.  The read-only paths         *)
(* request_optimal_moisture (reads crop_settings only) and GET /api/pumps    *)
(* (lists the table) are not part of this model.                             *)
(***************************************************************************)
EXTENDS Integers, FiniteSets, Sequences, TLC

\* ---------------------------------------------------------------- bounds
MaxTasks == 2        \* async functions in flight at once (slots)
MaxSess == 2         \* WebSocket connections accepted over the run
MaxWrites == 2       \* commits per pump_status row (last_updated is a logical clock)

\* ---------------------------------------------------------------- inputs
Areas == {"a1", "a2"}
Tasks == 1..MaxTasks
Sessions == 1..MaxSess

\* Values of the status and mode fields of a message or request body; a POST body may
\* also lack a field ("undefined").
StatusValues == {"true", "false"}
ModeValues == {"auto", "manual"}
Moistures == {49, 50}

VARIABLES
  pump_status,   \* the table: a set of rows, area_name UNIQUE
  clients,       \* the Map `clients`: area -> set holding the registered session (or empty)
  sock,          \* per session: the area it was opened for and its readyState
  tasks,         \* per slot: an async function in flight, parked at an await
  lastMsg,       \* per session still OPEN: the last pump_status_update delivered to it
  written        \* history: per area, the status and mode of the last write that succeeded

vars == <<pump_status, clients, sock, tasks, lastMsg, written>>

\* crop_settings is maintained elsewhere; this program only reads it.
crop_settings == {[area_name |-> "a1", optimal_moisture |-> 40]}

\* ---------------------------------------------------------------- store
SelectPump(table, a) == {r \in table : r.area_name = a}

\* Mutant: the SELECT has no WHERE clause.
SelectCropAnyArea(a) == crop_settings

SelectCrop(a) == {r \in crop_settings : r.area_name = a}

PumpId(a) == "pump_" \o a

\* Mutant: ON CONFLICT (area_name) DO NOTHING.
UpsertInsertOnly(table, a, pid, st, md) ==
  IF SelectPump(table, a) = {}
    THEN table \cup {[area_name |-> a, pump_id |-> pid, status |-> st, mode |-> md,
                      last_updated |-> 1]}
    ELSE table

\* Mutant: the conflict branch does not set last_updated.
UpsertKeepsTimestamp(table, a, pid, st, md) ==
  IF SelectPump(table, a) = {}
    THEN table \cup {[area_name |-> a, pump_id |-> pid, status |-> st, mode |-> md,
                      last_updated |-> 1]}
    ELSE {IF r.area_name = a THEN [r EXCEPT !.status = st, !.mode = md] ELSE r : r \in table}

\* INSERT ... ON CONFLICT (area_name) DO UPDATE SET status, mode, last_updated
Upsert(table, a, pid, st, md) ==
  IF SelectPump(table, a) = {}
    THEN table \cup {[area_name |-> a, pump_id |-> pid, status |-> st, mode |-> md,
                      last_updated |-> 1]}
    ELSE {IF r.area_name = a
            THEN [r EXCEPT !.status = st, !.mode = md, !.last_updated = r.last_updated + 1]
            ELSE r : r \in table}

\* Whether the row of area a can still take a commit within the model's clock bound.
CanWrite(table, a) == \A r \in SelectPump(table, a) : r.last_updated < MaxWrites

\* Mutant: the synthesized object is in manual mode.
DefaultStatusManual(a) ==
  [area_name |-> a, pump_id |-> PumpId(a), status |-> "false", mode |-> "manual",
   last_updated |-> 0]

\* The object sendPumpStatus synthesizes when the area has no row.
DefaultStatus(a) ==
  [area_name |-> a, pump_id |-> PumpId(a), status |-> "false", mode |-> "auto",
   last_updated |-> 0]

\* ---------------------------------------------------------------- tasks
\* `earlier` is history: the slots of the pump_control messages for the same area that were
\* received before this one and whose upsert is still pending.
Idle ==
  [kind |-> "idle", pc |-> "idle", area |-> "", pump_id |-> "", status |-> "",
   mode |-> "", moist |-> 0, target |-> 0, rows |-> {}, ws |-> 0, earlier |-> {}]

\* A new handler takes the lowest slot that holds none.
Free(t) ==
  /\ tasks[t].pc = "idle"
  /\ \A r \in Tasks : r < t => tasks[r].pc # "idle"

NoSock == [area |-> "", readyState |-> "none"]

\* ---------------------------------------------------------------- init
\* The table outlives the process: at start it is empty, or holds a row an earlier run
\* left behind (here the row handleSoilMoistureUpdate creates, written before the clock
\* of this run started).
InitialTables ==
  {{}, {[area_name |-> "a1", pump_id |-> PumpId("a1"), status |-> "false",
         mode |-> "auto", last_updated |-> 0]}}

Init ==
  /\ pump_status \in InitialTables
  /\ clients = [a \in Areas |-> {}]
  /\ sock = [s \in Sessions |-> NoSock]
  /\ tasks = [t \in Tasks |-> Idle]
  /\ lastMsg = [s \in Sessions |-> {}]
  /\ written = [a \in Areas |->
                  {[status |-> r.status, mode |-> r.mode] : r \in SelectPump(pump_status, a)}]

\* ---------------------------------------------------------------- sessions
\* Mutant: an area that already has a socket keeps it.
RegisterIfAbsent(map, a, s) == IF map[a] = {} THEN [map EXCEPT ![a] = {s}] ELSE map

\* clients.set(areaName, ws)
Register(map, a, s) == [map EXCEPT ![a] = {s}]

\* Mutant: the close handler clears the whole Map.
UnregisterAll(map, a, s) == [x \in Areas |-> {}]

\* Mutant: the close handler leaves the Map alone.
UnregisterNever(map, a, s) == map

\* clients.delete(areaName)
Unregister(map, a, s) == [map EXCEPT ![a] = {}]

\* Connections are numbered in the order the server accepts them.
NextSession(s) ==
  /\ sock[s].readyState = "none"
  /\ \A r \in Sessions : r < s => sock[r].readyState # "none"

\* wss.on('connection'): register the socket, call sendPumpStatus (its SELECT is issued).
Connection(t, s, a) ==
  /\ Free(t)
  /\ NextSession(s)
  /\ clients' = Register(clients, a, s)
  /\ sock' = [sock EXCEPT ![s] = [area |-> a, readyState |-> "open"]]
  /\ tasks' = [tasks EXCEPT ![t] = [Idle EXCEPT !.kind = "sendPumpStatus", !.pc = "query",
                                      !.area = a, !.ws = s]]
  /\ UNCHANGED <<pump_status, lastMsg, written>>

\* sendPumpStatus: the SELECT executes.
SendPumpStatusQuery(t, ok) ==
  /\ tasks[t].pc = "query"
  /\ tasks' = [tasks EXCEPT ![t] =
       IF ok THEN [tasks[t] EXCEPT !.pc = "send",
                                   !.rows = SelectPump(pump_status, tasks[t].area)]
             ELSE Idle]
  /\ UNCHANGED <<pump_status, clients, sock, lastMsg, written>>

\* What ws.send delivers: nothing unless the socket is OPEN.  Of the message the model
\* keeps pump_id, status and mode.
Deliver(log, s, row) ==
  IF sock[s].readyState = "open"
    THEN [log EXCEPT ![s] = {[pump_id |-> row.pump_id, status |-> row.status,
                              mode |-> row.mode]}]
    ELSE log

\* sendPumpStatus: the continuation sends the row, or the synthesized default.
SendPumpStatusSend(t) ==
  /\ tasks[t].pc = "send"
  /\ LET pumpStatus == IF tasks[t].rows = {} THEN DefaultStatus(tasks[t].area)
                                             ELSE CHOOSE r \in tasks[t].rows : TRUE
     IN lastMsg' = Deliver(lastMsg, tasks[t].ws, pumpStatus)
  /\ tasks' = [tasks EXCEPT ![t] = Idle]
  /\ UNCHANGED <<pump_status, clients, sock, written>>

\* The socket leaves OPEN (close frame sent or received); 'close' is not yet emitted.
\* Nothing is delivered to it from now on, and the record of what it was last sent is dropped.
SocketClosing(s) ==
  /\ sock[s].readyState = "open"
  /\ sock' = [sock EXCEPT ![s].readyState = "closing"]
  /\ lastMsg' = [lastMsg EXCEPT ![s] = {}]
  /\ UNCHANGED <<pump_status, clients, tasks, written>>

\* ws.on('close')
OnClose(s) ==
  /\ sock[s].readyState \in {"open", "closing"}
  /\ sock' = [sock EXCEPT ![s].readyState = "closed"]
  /\ clients' = Unregister(clients, sock[s].area, s)
  /\ lastMsg' = [lastMsg EXCEPT ![s] = {}]
  /\ UNCHANGED <<pump_status, tasks, written>>

\* ---------------------------------------------------------------- entry points
\* The pump_control messages for area a whose upsert has been issued and has not executed.
PendingCommands(a) ==
  {u \in Tasks : tasks[u].kind = "pump_control" /\ tasks[u].pc = "upsert" /\ tasks[u].area = a}

\* ws.on('message'), type pump_control: updatePumpStatus is called with the message's fields.
OnPumpControl(t, s, a, pid, st, md) ==
  /\ Free(t)
  /\ sock[s].readyState = "open"
  /\ tasks' = [tasks EXCEPT ![t] = [Idle EXCEPT !.kind = "pump_control", !.pc = "upsert",
                                      !.area = a, !.pump_id = pid, !.status = st,
                                      !.mode = md, !.earlier = PendingCommands(a)]]
  /\ UNCHANGED <<pump_status, clients, sock, lastMsg, written>>

\* ws.on('message'), type soil_moisture_update: handleSoilMoistureUpdate issues its first SELECT.
OnSoilMoistureUpdate(t, s, a, m) ==
  /\ Free(t)
  /\ sock[s].readyState = "open"
  /\ tasks' = [tasks EXCEPT ![t] = [Idle EXCEPT !.kind = "soil", !.pc = "crop", !.area = a,
                                      !.moist = m]]
  /\ UNCHANGED <<pump_status, clients, sock, lastMsg, written>>

\* status === undefined || !mode
MissingFields(st, md) == st = "undefined" \/ md = "undefined"

\* app.post('/api/pumps/:area_name')
Post(t, a, st, md) ==
  /\ Free(t)
  /\ tasks' = [tasks EXCEPT ![t] =
       IF MissingFields(st, md)
         THEN Idle
         ELSE [Idle EXCEPT !.kind = "post", !.pc = "upsert", !.area = a,
                           !.pump_id = PumpId(a), !.status = st, !.mode = md]]
  /\ UNCHANGED <<pump_status, clients, sock, lastMsg, written>>

\* ---------------------------------------------------------------- updatePumpStatus
\* What the caller does with updatePumpStatus's result: the POST handler answers 500 and
\* stops on failure; the message handler and handleSoilMoistureUpdate ignore the result.
\* In every other case broadcastPumpStatus is called (its SELECT is issued) and the caller
\* returns; the slot goes on as that broadcast.
AfterUpdate(task, success) ==
  IF task.kind = "post" /\ ~success
    THEN Idle
    ELSE [Idle EXCEPT !.kind = "broadcast", !.pc = "bcast_query", !.area = task.area]

\* A query parameter that is undefined is sent to the store as NULL.
Bind(v) == IF v = "undefined" THEN "null" ELSE v

\* History of successful writes: the status and mode the writer asked for.
Record(log, a, st, md) == [log EXCEPT ![a] = {[status |-> st, mode |-> md]}]

\* The upsert executes (or the store fails), and the caller continues.
UpdatePumpStatus(t, ok) ==
  /\ tasks[t].pc = "upsert"
  /\ ok => CanWrite(pump_status, tasks[t].area)
  /\ pump_status' = IF ok THEN Upsert(pump_status, tasks[t].area, Bind(tasks[t].pump_id),
                                      Bind(tasks[t].status), Bind(tasks[t].mode))
                          ELSE pump_status
  /\ written' = IF ok THEN Record(written, tasks[t].area, tasks[t].status, tasks[t].mode)
                      ELSE written
  /\ tasks' = [u \in Tasks |->
       IF u = t THEN AfterUpdate(tasks[t], ok)
                ELSE [tasks[u] EXCEPT !.earlier = tasks[u].earlier \ {t}]]
  /\ UNCHANGED <<clients, sock, lastMsg>>

\* ---------------------------------------------------------------- handleSoilMoistureUpdate
TargetMoisture(optimal_moisture) == optimal_moisture + 10

\* Mutant: the pump also runs at the target itself.
NewStatusAtMost(soil_moisture, targetMoisture) ==
  IF soil_moisture <= targetMoisture THEN "true" ELSE "false"

NewStatus(soil_moisture, targetMoisture) ==
  IF soil_moisture < targetMoisture THEN "true" ELSE "false"

\* Mutant: every reading in auto mode is written.
NeedsUpdateAlways(pumpStatus, newStatus) == pumpStatus.mode = "auto"

\* pumpStatus.mode === 'auto' and newStatus !== pumpStatus.status
NeedsUpdate(pumpStatus, newStatus) ==
  pumpStatus.mode = "auto" /\ newStatus # pumpStatus.status

\* Lines 127-136: with pumpStatus in hand, call updatePumpStatus or return.
Decide(task, pumpStatus) ==
  LET newStatus == NewStatus(task.moist, task.target)
  IN IF NeedsUpdate(pumpStatus, newStatus)
       THEN [task EXCEPT !.pc = "upsert", !.pump_id = PumpId(task.area),
                         !.status = newStatus, !.mode = "auto", !.rows = {pumpStatus}]
       ELSE Idle

\* SELECT * FROM crop_settings executes.
SoilCropQuery(t, ok) ==
  /\ tasks[t].pc = "crop"
  /\ LET cropSettings == SelectCrop(tasks[t].area)
     IN tasks' = [tasks EXCEPT ![t] =
          IF ~ok THEN Idle
          ELSE IF cropSettings = {} THEN Idle
          ELSE [tasks[t] EXCEPT !.pc = "pump",
                  !.target = TargetMoisture((CHOOSE r \in cropSettings : TRUE).optimal_moisture)]]
  /\ UNCHANGED <<pump_status, clients, sock, lastMsg, written>>

\* SELECT * FROM pump_status executes.
SoilPumpQuery(t, ok) ==
  /\ tasks[t].pc = "pump"
  /\ LET pumpStatusResult == SelectPump(pump_status, tasks[t].area)
     IN tasks' = [tasks EXCEPT ![t] =
          IF ~ok THEN Idle
          ELSE IF pumpStatusResult = {} THEN [tasks[t] EXCEPT !.pc = "insert"]
          ELSE Decide(tasks[t], CHOOSE r \in pumpStatusResult : TRUE)]
  /\ UNCHANGED <<pump_status, clients, sock, lastMsg, written>>

\* The plain INSERT executes; it fails when the area has a row by now (area_name UNIQUE).
SoilInsert(t, ok) ==
  /\ tasks[t].pc = "insert"
  /\ LET a == tasks[t].area
         inserted == ok /\ SelectPump(pump_status, a) = {}
         row == [area_name |-> a, pump_id |-> PumpId(a), status |-> "false",
                 mode |-> "auto", last_updated |-> 1]
     IN /\ pump_status' = IF inserted THEN pump_status \cup {row} ELSE pump_status
        /\ written' = IF inserted THEN Record(written, a, row.status, row.mode) ELSE written
        /\ tasks' = [tasks EXCEPT ![t] =
             IF inserted THEN Decide(tasks[t], row) ELSE Idle]
  /\ UNCHANGED <<clients, sock, lastMsg>>

\* ---------------------------------------------------------------- broadcastPumpStatus
\* The SELECT executes.
BroadcastQuery(t, ok) ==
  /\ tasks[t].pc = "bcast_query"
  /\ LET result == SelectPump(pump_status, tasks[t].area)
     IN tasks' = [tasks EXCEPT ![t] =
          IF ~ok \/ result = {} THEN Idle
          ELSE [tasks[t] EXCEPT !.pc = "bcast_send", !.rows = result]]
  /\ UNCHANGED <<pump_status, clients, sock, lastMsg, written>>

\* Mutant: the socket's readyState is not looked at.
TargetAnyState(a) == clients[a]

\* clients.get(areaName), when it is a socket in readyState OPEN
Target(a) == {s \in clients[a] : sock[s].readyState = "open"}

\* The continuation looks the socket up and sends the row it read.
BroadcastSend(t) ==
  /\ tasks[t].pc = "bcast_send"
  /\ LET pumpStatus == CHOOSE r \in tasks[t].rows : TRUE
     IN lastMsg' = IF Target(tasks[t].area) = {} THEN lastMsg
                   ELSE Deliver(lastMsg, CHOOSE s \in Target(tasks[t].area) : TRUE, pumpStatus)
  /\ tasks' = [tasks EXCEPT ![t] = Idle]
  /\ UNCHANGED <<pump_status, clients, sock, written>>

\* ---------------------------------------------------------------- GET /api/pumps/:area_name
\* app.get('/api/pumps/:area_name'): the SELECT is issued.
Get(t, a) ==
  /\ Free(t)
  /\ tasks' = [tasks EXCEPT ![t] = [Idle EXCEPT !.kind = "get", !.pc = "get_query",
                                      !.area = a]]
  /\ UNCHANGED <<pump_status, clients, sock, lastMsg, written>>

\* The SELECT executes; on failure the handler answers 500.
GetQuery(t, ok) ==
  /\ tasks[t].pc = "get_query"
  /\ tasks' = [tasks EXCEPT ![t] =
       IF ok THEN [tasks[t] EXCEPT !.pc = "get_respond",
                                   !.rows = SelectPump(pump_status, tasks[t].area)]
             ELSE Idle]
  /\ UNCHANGED <<pump_status, clients, sock, lastMsg, written>>

\* The continuation answers 404 when no row was read, the row otherwise.
GetRespond(t) ==
  /\ tasks[t].pc = "get_respond"
  /\ tasks' = [tasks EXCEPT ![t] = Idle]
  /\ UNCHANGED <<pump_status, clients, sock, lastMsg, written>>

\* ---------------------------------------------------------------- specification
\* A step of the program whose inputs (the areas addressed, the outcomes of store calls,
\* the fields of messages and request bodies) are drawn from the sets in `in`.
Step(in) ==
  \/ \E t \in Tasks, s \in Sessions, a \in in.areas : Connection(t, s, a)
  \/ \E t \in Tasks, ok \in in.outcomes : SendPumpStatusQuery(t, ok)
  \/ \E t \in Tasks : SendPumpStatusSend(t)
  \/ \E s \in Sessions : SocketClosing(s)
  \/ \E s \in Sessions : OnClose(s)
  \/ \E t \in Tasks, s \in Sessions, a \in in.areas, st \in in.statuses, md \in in.modes :
        \E pid \in in.pump_ids[a] : OnPumpControl(t, s, a, pid, st, md)
  \/ \E t \in Tasks, s \in Sessions, a \in in.areas, m \in in.moistures :
        OnSoilMoistureUpdate(t, s, a, m)
  \/ \E t \in Tasks, a \in in.areas, st \in in.statuses \cup {"undefined"},
        md \in in.modes \cup {"undefined"} : Post(t, a, st, md)
  \/ \E t \in Tasks, ok \in in.outcomes : UpdatePumpStatus(t, ok)
  \/ \E t \in Tasks, ok \in in.outcomes : SoilCropQuery(t, ok)
  \/ \E t \in Tasks, ok \in in.outcomes : SoilPumpQuery(t, ok)
  \/ \E t \in Tasks, ok \in in.outcomes : SoilInsert(t, ok)
  \/ \E t \in Tasks, ok \in in.outcomes : BroadcastQuery(t, ok)
  \/ \E t \in Tasks : BroadcastSend(t)

\* All traffic is for one area, pump_control messages name the area's own pump, and store
\* calls may fail.
OneArea ==
  [areas |-> {"a1"}, outcomes |-> BOOLEAN, statuses |-> StatusValues, modes |-> ModeValues,
   moistures |-> Moistures, pump_ids |-> [a \in Areas |-> {PumpId(a)}]]

Next == Step(OneArea)

Spec == Init /\ [][Next]_vars

\* The same traffic with a store that never fails.
NextReliable == Step([OneArea EXCEPT !.outcomes = {TRUE}])

SpecReliable == Init /\ [][NextReliable]_vars

\* Traffic for both areas (a2 has no crop settings), with a store that never fails and
\* operators that only switch the pump on by hand.
TwoAreas ==
  [OneArea EXCEPT !.areas = Areas, !.outcomes = {TRUE}, !.statuses = {"true"},
                  !.modes = {"manual"}]

NextAreas == Step(TwoAreas)

SpecAreas == Init /\ [][NextAreas]_vars

\* Traffic for one area with a store that never fails, and status queries over HTTP.
NextQueries ==
  \/ Step([OneArea EXCEPT !.outcomes = {TRUE}])
  \/ \E t \in Tasks : Get(t, "a1")
  \/ \E t \in Tasks : GetQuery(t, TRUE)
  \/ \E t \in Tasks : GetRespond(t)

SpecQueries == Init /\ [][NextQueries]_vars

\* Traffic for one area with a store that never fails, where a pump_control message may
\* lack its status or its mode and may name any pump.
AnyMessage ==
  [OneArea EXCEPT !.outcomes = {TRUE}, !.statuses = {"true", "undefined"},
                  !.modes = {"manual", "undefined"},
                  !.pump_ids = [a \in Areas |-> {PumpId(a), "p1"}]]

NextMessages == Step(AnyMessage)

SpecMessages == Init /\ [][NextMessages]_vars

\* ---------------------------------------------------------------- properties
\* The row of area a, as a set of at most one row.
RowOf(a) == SelectPump(pump_status, a)

\* The async function in slot t takes a step (starts, resumes or returns).
Steps(t) == <<tasks'[t].kind, tasks'[t].pc>> # <<tasks[t].kind, tasks[t].pc>>

\* The connection most recently accepted for area a.
Latest(a) ==
  {s \in Sessions : /\ sock[s].readyState # "none"
                    /\ sock[s].area = a
                    /\ \A r \in Sessions :
                         (sock[r].readyState # "none" /\ sock[r].area = a) => r <= s}

\* No async function is in flight.
Quiet == \A t \in Tasks : tasks[t].pc = "idle"

SameState(x, y) == x.status = y.status /\ x.mode = y.mode

\* C1: when a session closes, the registry entry of an area is removed only if that
\* entry is the closing session itself; the entry of a newer session stays.
C1_CloseKeepsNewerSession ==
  [][\A s \in Sessions :
       (sock[s].readyState # "closed" /\ sock'[s].readyState = "closed")
         => \A a \in Areas : clients[a] # {s} => clients'[a] = clients[a]]_vars

\* C2: a write issued by the soil_moisture_update handler never changes the status or
\* mode of a row whose mode is 'manual' when the write is applied.
C2_SensorLeavesManualAlone ==
  [][\A t \in Tasks :
       (tasks[t].kind = "soil" /\ Steps(t))
         => \A r \in RowOf(tasks[t].area) :
              r.mode = "manual"
                => \E q \in SelectPump(pump_status', tasks[t].area) : SameState(q, r)]_vars

\* C3: when the sensor handler's upsert commits, the row it leaves is the result of one of
\* the two serial orders of the handler and the command committed before it: the command
\* last (the row as it stood), or the handler last (the handler run on the row as it stood:
\* its decision in auto mode, no change otherwise).
C3_SensorWriteIsSerial ==
  [][\A t \in Tasks :
       (tasks[t].kind = "soil" /\ tasks[t].pc = "upsert" /\ Steps(t))
         => \A r \in RowOf(tasks[t].area), q \in SelectPump(pump_status', tasks[t].area) :
              \/ SameState(q, r)
              \/ r.mode = "auto" /\ q.status = tasks[t].status /\ q.mode = "auto"]_vars

\* An operation that has read or written the row of its area and whose broadcast has not
\* completed.
InCriticalSection(t) ==
  \/ tasks[t].pc \in {"insert", "bcast_query", "bcast_send"}
  \/ tasks[t].kind = "soil" /\ tasks[t].pc = "upsert"

\* C4: no two operations on the same area are inside their read-decide-upsert-broadcast
\* sequence at once.
C4_PerAreaMutualExclusion ==
  \A t1, t2 \in Tasks :
    (t1 # t2 /\ tasks[t1].area = tasks[t2].area)
      => ~(InCriticalSection(t1) /\ InCriticalSection(t2))

\* C5: when updatePumpStatus fails (the table is left as it was), broadcastPumpStatus is
\* not called for that operation.
C5_NoBroadcastAfterFailedUpsert ==
  [][\A t \in Tasks :
       (tasks[t].pc = "upsert" /\ Steps(t) /\ pump_status' = pump_status)
         => tasks'[t].pc # "bcast_query"]_vars

\* C6: a pump_status_update pushed by broadcastPumpStatus carries the status and mode of
\* the row as committed at the moment of the push.
C6_BroadcastCarriesLatestCommit ==
  [][\A t \in Tasks :
       (tasks[t].pc = "bcast_send" /\ Steps(t) /\ Target(tasks[t].area) # {})
         => \A m \in tasks[t].rows, r \in RowOf(tasks[t].area) : SameState(m, r)]_vars

\* C7: for an area whose only session connected once and is open, once nothing is in
\* flight the last pump_status_update delivered to the session has the status and mode
\* of the area's row.
C7_ViewerConverges ==
  \A a \in Areas, s \in Sessions :
    (/\ Quiet
     /\ sock[s].readyState = "open" /\ sock[s].area = a
     /\ \A r \in Sessions : sock[r].readyState # "none" => r = s)
      => \A m \in lastMsg[s], r \in RowOf(a) : SameState(m, r)

Prescribed(a, soil_moisture) ==
  IF \E c \in crop_settings : c.area_name = a /\ soil_moisture < c.optimal_moisture + 10
    THEN "true" ELSE "false"

\* C9: in auto mode, with crop settings, every store call succeeding and no commit on the
\* area between the handler's read and its write, when handleSoilMoistureUpdate returns
\* the row's status is on iff soil_moisture < optimal_moisture + 10, and its mode is 'auto'.
C9_AutoDecision ==
  [][\A t \in Tasks :
       (tasks[t].kind = "soil" /\ Steps(t))
         => LET a == tasks[t].area
                want == Prescribed(a, tasks[t].moist)
                after == SelectPump(pump_status', a)
            IN /\ (tasks[t].pc = "pump" /\ tasks'[t].pc = "idle")
                    => \A r \in RowOf(a) :
                         r.mode = "auto" => \A q \in after : q.status = want /\ q.mode = "auto"
               /\ (tasks[t].pc = "insert" /\ tasks'[t].pc = "idle" /\ RowOf(a) = {})
                    => \A q \in after : q.status = want /\ q.mode = "auto"
               /\ (tasks[t].pc = "upsert" /\ tasks[t].rows = RowOf(a))
                    => after # {} /\ \A q \in after : q.status = want /\ q.mode = "auto"]_vars

\* The handler has read the row in auto mode, decided, and is at its upsert with no commit
\* on the area since its read.
C9_Witness ==
  \E t \in Tasks :
    /\ tasks[t].kind = "soil" /\ tasks[t].pc = "upsert"
    /\ tasks[t].rows = RowOf(tasks[t].area)
    /\ \E r \in tasks[t].rows : r.last_updated > 0

\* soil_moisture < targetMoisture, as the handler in slot t computes it.
Computed(t) == IF tasks[t].moist < tasks[t].target THEN "true" ELSE "false"

\* C10: a soil_moisture_update whose computed status equals the status it read returns
\* without an upsert and without a broadcast, the table and every session's last message
\* unchanged; it goes on to an upsert only when the two differ.
C10_NoWriteWithoutTransition ==
  [][\A t \in Tasks :
       (tasks[t].kind = "soil" /\ Steps(t))
         => /\ tasks[t].pc = "pump"
                 => \A r \in RowOf(tasks[t].area) :
                      /\ Computed(t) = r.status
                           => tasks'[t].pc = "idle" /\ UNCHANGED <<pump_status, lastMsg>>
                      /\ tasks'[t].pc = "upsert" => Computed(t) # r.status
            /\ tasks[t].pc = "insert"
                 => /\ Computed(t) = "false" => tasks'[t].pc = "idle" /\ lastMsg' = lastMsg
                    /\ tasks'[t].pc = "upsert" => Computed(t) # "false"]_vars

\* The handler's SELECT is about to return a row in auto mode whose status is the one the
\* handler computes.
C10_Witness ==
  \E t \in Tasks :
    /\ tasks[t].kind = "soil" /\ tasks[t].pc = "pump"
    /\ \E r \in RowOf(tasks[t].area) :
         r.mode = "auto" /\ r.status = Computed(t) /\ r.last_updated > 0

\* crop_settings holds no row for area a.
NoCropSettings(a) == \A c \in crop_settings : c.area_name # a

\* C11: a soil_moisture_update for an area without crop settings returns from its first
\* SELECT: it never goes on to read or write pump_status, the table and every session's
\* last message stay as they were, and (the store not failing) it returns normally.
C11_UnconfiguredAreaIsSkipped ==
  [][\A t \in Tasks :
       (tasks[t].kind = "soil" /\ NoCropSettings(tasks[t].area) /\ Steps(t))
         => /\ tasks[t].pc = "crop"
            /\ tasks'[t] = Idle
            /\ UNCHANGED <<pump_status, lastMsg>>]_vars

\* A reading for a2 (no crop settings) is being handled while a2 has a row and an open,
\* registered session.
C11_Witness ==
  \E t \in Tasks :
    /\ tasks[t].kind = "soil" /\ tasks[t].pc = "crop" /\ NoCropSettings(tasks[t].area)
    /\ RowOf(tasks[t].area) # {}
    /\ Target(tasks[t].area) # {}

\* C12: a status query (GET /api/pumps/:area_name, or the SELECT of sendPumpStatus on
\* connect) that executes after a write to its area succeeded, with no later write before
\* it, reads a row with exactly the status and mode that write asked for; what is then
\* sent on connect is the row that was read.
C12_ReadYourWrites ==
  [][\A t \in Tasks :
       /\ (tasks[t].pc \in {"get_query", "query"} /\ Steps(t))
            => \A w \in written[tasks[t].area] :
                 /\ tasks'[t].pc \in {"get_respond", "send"}
                 /\ tasks'[t].rows # {}
                 /\ \A r \in tasks'[t].rows : SameState(r, w)
       /\ (tasks[t].pc = "send" /\ Steps(t) /\ sock[tasks[t].ws].readyState = "open")
            => \A r \in tasks[t].rows :
                 lastMsg'[tasks[t].ws] # {} /\ \A m \in lastMsg'[tasks[t].ws] : SameState(m, r)]_vars

\* A GET has read the row after the second write of this run, an operator command that
\* set manual mode.
C12_Witness ==
  \E t \in Tasks :
    /\ tasks[t].kind = "get" /\ tasks[t].pc = "get_respond"
    /\ \E r \in tasks[t].rows : r.last_updated = MaxWrites /\ r.mode = "manual"
    /\ tasks[t].rows = RowOf(tasks[t].area)

\* Slot t holds an operator command (POST or pump_control) whose upsert is pending.
OperatorCommand(t) == tasks[t].kind \in {"pump_control", "post"} /\ tasks[t].pc = "upsert"

\* The row of the command's area already has the command's status and mode, as the
\* command's first application leaves it.
Repeats(t) ==
  \E r \in RowOf(tasks[t].area) : r.status = tasks[t].status /\ r.mode = tasks[t].mode

\* C13 as stated: applying an operator command to a row that already has its status and
\* mode leaves the persisted state as it was.
C13_SecondApplicationChangesNothing ==
  [][\A t \in Tasks :
       (OperatorCommand(t) /\ Repeats(t) /\ Steps(t)) => pump_status' = pump_status]_vars

\* C13, amended: the second application leaves area_name, pump_id, status and mode of the
\* row and every other row as they were and advances last_updated; its broadcast is issued
\* and pushes the pump_id, status and mode of the row it read.
C13_IdempotentUpToTimestamp ==
  [][\A t \in Tasks :
       /\ (OperatorCommand(t) /\ Repeats(t) /\ Steps(t))
            => /\ \A r \in RowOf(tasks[t].area) :
                    \E q \in pump_status' :
                      /\ q.last_updated > r.last_updated
                      /\ [q EXCEPT !.last_updated = r.last_updated] = r
                      /\ pump_status' \ {q} = pump_status \ {r}
               /\ tasks'[t].pc = "bcast_query"
       /\ (tasks[t].pc = "bcast_send" /\ Steps(t))
            => \A s \in Target(tasks[t].area), m \in tasks[t].rows :
                 lastMsg'[s] = {[pump_id |-> m.pump_id, status |-> m.status, mode |-> m.mode]}]_vars

\* An operator command for manual mode is about to be applied to the row that the first
\* write of this run left with the same status and mode.
C13_Witness ==
  \E t \in Tasks :
    /\ OperatorCommand(t) /\ Repeats(t) /\ tasks[t].mode = "manual"
    /\ \E r \in RowOf(tasks[t].area) : r.last_updated = 1
    /\ \E s \in Target(tasks[t].area) : lastMsg[s] # {}

\* C14: sendPumpStatus never changes the table, and when its SELECT found no row it sends
\* status false, mode 'auto' and pump_id 'pump_<area>'.
C14_DefaultStatusOnConnect ==
  [][\A t \in Tasks :
       (tasks[t].kind = "sendPumpStatus" /\ Steps(t))
         => /\ pump_status' = pump_status
            /\ (tasks[t].pc = "send" /\ tasks[t].rows = {}
                  /\ sock[tasks[t].ws].readyState = "open")
                 => lastMsg'[tasks[t].ws] =
                      {[pump_id |-> "pump_" \o tasks[t].area, status |-> "false",
                        mode |-> "auto"]}]_vars

\* A session of an area that has no row holds the synthesized default.
C14_Witness ==
  \E s \in Sessions :
    /\ sock[s].readyState = "open"
    /\ RowOf(sock[s].area) = {}
    /\ lastMsg[s] = {[pump_id |-> "pump_" \o sock[s].area, status |-> "false",
                      mode |-> "auto"]}

\* C15: an operator command that lacks status or mode changes no row and is followed by
\* no broadcast.
C15_IncompleteCommandIsRejected ==
  [][\A t \in Tasks :
       (OperatorCommand(t) /\ MissingFields(tasks[t].status, tasks[t].mode) /\ Steps(t))
         => pump_status' = pump_status /\ tasks'[t].pc # "bcast_query"]_vars

\* C16: every row's pump_id is 'pump_' followed by its area_name, and the pump_id of a row
\* never changes.
C16_PumpIdDerivedFromArea ==
  [][/\ \A r \in pump_status' : r.pump_id = "pump_" \o r.area_name
     /\ \A r \in pump_status : \E q \in pump_status' :
          q.area_name = r.area_name /\ q.pump_id = r.pump_id]_vars

\* The sessions of area a whose socket has left OPEN.
Disconnected(a) ==
  {s \in Sessions : sock[s].area = a /\ sock[s].readyState \in {"closing", "closed"}}

\* C17: a socket leaving OPEN or closing changes neither the table nor any operation in
\* flight; with a session of its area disconnected, an upsert commits the values it was
\* issued with and goes on to the broadcast, and the broadcast's send returns normally
\* having sent nothing to a disconnected session.
C17_DisconnectDoesNotAbort ==
  [][/\ (\E s \in Sessions : /\ sock'[s].readyState # sock[s].readyState
                             /\ sock'[s].readyState \in {"closing", "closed"})
          => UNCHANGED <<pump_status, tasks>>
     /\ \A t \in Tasks :
          (Steps(t) /\ Disconnected(tasks[t].area) # {})
            => /\ tasks[t].pc = "upsert"
                    => /\ \E q \in SelectPump(pump_status', tasks[t].area) :
                            /\ q.status = tasks[t].status /\ q.mode = tasks[t].mode
                            /\ \A r \in RowOf(tasks[t].area) : q.last_updated > r.last_updated
                       /\ tasks'[t].pc = "bcast_query"
               /\ tasks[t].pc = "bcast_send"
                    => /\ tasks'[t] = Idle
                       /\ \A s \in Disconnected(tasks[t].area) :
                            s \notin Target(tasks[t].area) /\ lastMsg'[s] = {}]_vars

\* A broadcast has read the row and is about to look up the area's socket, which is
\* registered and no longer OPEN.
C17_Witness ==
  \E t \in Tasks :
    /\ tasks[t].pc = "bcast_send"
    /\ \E s \in clients[tasks[t].area] : sock[s].readyState = "closing"
    /\ \A r \in tasks[t].rows : r.last_updated > 0

\* C18: with a single session, the upsert of a pump_control message commits only when the
\* upsert of every pump_control message with another status or mode that was received
\* before it for the same area has executed.
C18_CommandsCommitInArrivalOrder ==
  [][\A t \in Tasks :
       (/\ tasks[t].kind = "pump_control" /\ tasks[t].pc = "upsert" /\ Steps(t)
        /\ pump_status' # pump_status
        /\ \A s \in Sessions : s > 1 => sock[s].readyState = "none")
         => \A u \in tasks[t].earlier : SameState(tasks[u], tasks[t])]_vars

\* The step is part of an event addressed to area b: an async function working on b
\* starts, resumes or returns, or a socket opened for b connects, leaves OPEN or closes.
AddressedTo(b) ==
  \/ \E t \in Tasks : Steps(t) /\ (tasks[t].area = b \/ tasks'[t].area = b)
  \/ \E s \in Sessions : sock'[s] # sock[s] /\ sock'[s].area = b

\* C19: a step that is not part of an event addressed to area b leaves b's row and b's
\* registry entry unchanged and delivers nothing to a session of b.
C19_AreaIndependence ==
  [][\A b \in Areas :
       ~AddressedTo(b)
         => /\ SelectPump(pump_status', b) = RowOf(b)
            /\ clients'[b] = clients[b]
            /\ \A s \in Sessions : sock[s].area = b => lastMsg'[s] = lastMsg[s]]_vars

\* Both areas have a row and an open registered session that has been sent a status, and
\* a broadcast for a1 is about to push.
C19_Witness ==
  /\ RowOf("a1") # {} /\ RowOf("a2") # {}
  /\ \A a \in Areas : \E s \in Target(a) : lastMsg[s] # {}
  /\ \E t \in Tasks : tasks[t].pc = "bcast_send" /\ tasks[t].area = "a1"

\* C20: the Map never holds a session whose close handler has run, and the send of
\* broadcastPumpStatus goes to no session that is not OPEN.
C20_RegistryHoldsLiveSessions ==
  [][/\ \A a \in Areas : \A s \in clients'[a] : sock'[s].readyState # "closed"
     /\ \A t \in Tasks :
          (tasks[t].pc = "bcast_send" /\ Steps(t))
            => \A s \in Sessions :
                 sock[s].readyState # "open" => lastMsg'[s] = lastMsg[s]]_vars

\* One session has closed, a later one is registered and open, and a broadcast is about
\* to push to it.
C20_Witness ==
  \E s1, s2 \in Sessions, t \in Tasks :
    /\ sock[s1].readyState = "closed" /\ sock[s2].readyState = "open"
    /\ sock[s1].area = sock[s2].area
    /\ clients[sock[s2].area] = {s2}
    /\ tasks[t].pc = "bcast_send" /\ tasks[t].area = sock[s2].area

\* area_name is UNIQUE in the table, and the Map holds at most one socket per key.
TypeOK ==
  /\ \A a \in Areas : Cardinality(SelectPump(pump_status, a)) <= 1
  /\ \A a \in Areas : Cardinality(clients[a]) <= 1

====
